---- MODULE Spec2Model ----
(***************************************************************************)
(* Gatekeeper (community/gatekeeper.py): a queue of (pause, command)       *)
(* entries drained by __proc_command, which is run inline by add_command   *)
(* when no live timer exists and by the timer callback otherwise.  The     *)
(* class takes no lock, so every read or write of self.commands and        *)
(* self.timer is one step of the thread that performs it.                  *)
(***************************************************************************)
EXTENDS Integers, Sequences, FiniteSets, TLC

\* ----------------------------------------------------------------- bounds
MaxCmds == 2        \* add_command calls in one behaviour
MaxCancels == 1     \* cancel_all calls in one behaviour
MaxTime == 2        \* the clock runs freely up to here, then only towards armed timers
MaxDepth == 2       \* frames on one thread: an operation, and one called by its command
NumCallers == 2     \* threads that call the public methods

Pauses == {-1, 1}   \* the pause arguments, in milliseconds; add_command takes any number

MaxTimers == MaxCmds                      \* one createTimer per executed command at most
Timers == 1..MaxTimers                    \* timer objects; each runs its callback on its own thread
Callers == (MaxTimers + 1)..(MaxTimers + NumCallers)
Contexts == Timers \cup Callers           \* threads
None == 0                                 \* self.timer = None

VARIABLES
    commands,   \* self.commands: the Queue, a sequence of [id, pause]
    timer,      \* self.timer: None or the id of a timer object
    timers,     \* the timer objects created so far: [armed, at]
    stack,      \* per thread, the frames of the operations it is executing
    now,        \* DateTime.now().millis
    nextId,     \* number of entries enqueued so far (entry ids are 1..nextId)
    nCancel,    \* number of cancel_all calls so far
    quiet,      \* history: a cancel_all has returned and no add_command was called since
    started,    \* history: the command invocations, in order: [id, pause, t]
    failed,     \* history: ids of the entries whose command raised
    removed,    \* history: ids of the entries popped by cancel_all
    discarded,  \* history: ids in the queue when a cancel_all was called and not started when it returned
    addlog,     \* history: one record per finished add_command call
    drainlog    \* history: one record per drain step that invoked a command, and how it ended

vars == <<commands, timer, timers, stack, now, nextId, nCancel, quiet,
          started, failed, removed, discarded, addlog, drainlog>>

hist == <<started, failed, removed, discarded, addlog, drainlog>>

\* ------------------------------------------------------------ collaborators
\* Queue.empty()
QueueEmpty(q) == q = <<>>

\* Queue.put(item)
QueuePut(q, item) == Append(q, item)

QueueGetKeep(q) == [item |-> Head(q), rest |-> q]

\* Queue.get(): the head, and the queue without it
QueueGet(q) == [item |-> Head(q), rest |-> Tail(q)]

\* time_utils.to_datetime(ms): the instant ms milliseconds from now
ToDatetime(ms, t) == t + ms

\* DateTime.minusMillis
MinusMillis(t, d) == t - d

\* the callback of timer object t is executing
Running(t) == stack[t] # <<>>

\* Timer.hasTerminated(): the timer has fired, its callback is over, and it was not rearmed
HasTerminated(t) == ~timers[t].armed /\ ~Running(t)

\* ScriptExecution.createTimer(at, callback): a new armed timer object
CreateTimer(tms, at) == Append(tms, [armed |-> TRUE, at |-> at])

\* Timer.reschedule(at): the one pending firing of the timer is moved to at
Reschedule(tms, t, at) == [tms EXCEPT ![t] = [armed |-> TRUE, at |-> at]]

TimerIsNoneNever(t) == FALSE

\* self.timer is None
TimerIsNone(t) == t = None

ClearTimerKeep(t) == t

\* self.timer = None
ClearTimer(t) == None

\* ------------------------------------------------------------------ frames
NoCmd == [id |-> 0, pause |-> 0]

Frame(op, pc, id, idle, solo, snap) ==
    [op |-> op, pc |-> pc, id |-> id, cmd |-> NoCmd, before |-> 0, trig |-> 0,
     idle |-> idle, solo |-> solo, n |-> 0, own |-> FALSE, w |-> FALSE, snap |-> snap,
     quiet |-> FALSE]

Top(c) == stack[c][Len(stack[c])]

Depth(c) == Len(stack[c])

At(c, pc) == Depth(c) > 0 /\ Top(c).pc = pc

\* the stacks with the top frame of c replaced / removed / a frame added
SetTop(st, c, f) == [st EXCEPT ![c] = [@ EXCEPT ![Len(@)] = f]]
Pop(st, c) == [st EXCEPT ![c] = SubSeq(@, 1, Len(@) - 1)]
Push(st, c, f) == [st EXCEPT ![c] = Append(@, f)]

\* a call by an operation that starts on c ends the solitude of the calls of the other threads
NotSolo(st, c) ==
    [d \in Contexts |->
        IF d = c THEN st[d]
        ELSE [i \in 1..Len(st[d]) |-> [st[d][i] EXCEPT !.solo = FALSE]]]

\* an add_command call ends the quiet after a cancel_all, also for the callbacks begun in it
NotQuiet(st) ==
    [d \in Contexts |-> [i \in 1..Len(st[d]) |-> [st[d][i] EXCEPT !.quiet = FALSE]]]

ProcPcs == {"empty", "clear", "get", "call", "run", "create", "resched"}

\* the frames that are inside __proc_command
DrainFrames == {<<c, i>> \in Contexts \X (1..MaxDepth + 1) :
                    i <= Len(stack[c]) /\ stack[c][i].pc \in ProcPcs}

\* the frames whose command is being invoked
RunFrames == {<<c, i>> \in Contexts \X (1..MaxDepth + 1) :
                    i <= Len(stack[c]) /\ stack[c][i].pc = "run"}

NoFrames == \A c \in Contexts : stack[c] = <<>>

StartedIds == {started[i].id : i \in 1..Len(started)}
QueuedIds == {commands[i].id : i \in 1..Len(commands)}
ArmedTimers == {t \in 1..Len(timers) : timers[t].armed}

\* IDLE as add_command sees it, plus no drain step in progress
Idle == (timer = None \/ HasTerminated(timer)) /\ DrainFrames = {}

\* IDLE reached by the drain loop: nothing queued, running or armed, and self.timer is None
Rested == NoFrames /\ ArmedTimers = {} /\ QueueEmpty(commands) /\ timer = None

\* a thread may start an operation: a caller at rest, or a running command calling back
CanCall(c) ==
    \/ c \in Callers /\ stack[c] = <<>>
    \/ At(c, "run") /\ Depth(c) < MaxDepth

AddRecord(f, exc) ==
    [id |-> f.id, idle |-> f.idle, solo |-> f.solo, own |-> f.own, n |-> f.n,
     w |-> f.w, exc |-> exc]

\* the record of a drain step of frame f: whether its command raised, and what it
\* did at lines 69-73 ("create", "reschedule" or "none") with which handle in place
DrainRecord(f, fail, how) ==
    [id |-> f.cmd.id, op |-> f.op, failed |-> fail, armed |-> how # "none", how |-> how,
     live |-> how # "none" /\ timer # None /\ ~HasTerminated(timer)]

\* the log of finished add_command calls, after frame f ends
Logged(f, exc) == IF f.op = "add" THEN addlog \cup {AddRecord(f, exc)} ELSE addlog

\* ------------------------------------------------------------------ Init
Init ==
    /\ commands = <<>>
    /\ timer = None
    /\ timers = <<>>
    /\ stack = [c \in Contexts |-> <<>>]
    /\ now = 0
    /\ nextId = 0
    /\ nCancel = 0
    /\ quiet = FALSE
    /\ started = <<>>
    /\ failed = {}
    /\ removed = {}
    /\ discarded = {}
    /\ addlog = {}
    /\ drainlog = {}

\* ----------------------------------------------------------- add_command
\* line 87: self.commands.put((pause, command))
AddCommand(c, pause) ==
    /\ nextId < MaxCmds
    /\ CanCall(c)
    /\ nextId' = nextId + 1
    /\ commands' = QueuePut(commands, [id |-> nextId + 1, pause |-> pause])
    /\ stack' = Push(NotQuiet(NotSolo(stack, c)), c,
                     Frame("add", "chk1", nextId + 1, Idle, Rested, {}))
    /\ quiet' = FALSE
    /\ UNCHANGED <<timer, timers, now, nCancel, hist>>

\* line 88, left operand: self.timer is None
AddCheckNone(c) ==
    /\ At(c, "chk1")
    /\ stack' = SetTop(stack, c, [Top(c) EXCEPT !.pc = IF TimerIsNone(timer) THEN "empty" ELSE "chk2"])
    /\ UNCHANGED <<quiet, commands, timer, timers, now, nextId, nCancel, hist>>

\* line 88, right operand: self.timer.hasTerminated(); self.timer is read again, and
\* the call raises AttributeError when it has become None
AddCheckTerminated(c) ==
    /\ At(c, "chk2")
    /\ IF timer = None
         THEN /\ stack' = Pop(stack, c)
              /\ addlog' = Logged(Top(c), "AttributeError")
         ELSE IF HasTerminated(timer)
         THEN /\ stack' = SetTop(stack, c, [Top(c) EXCEPT !.pc = "empty"])
              /\ addlog' = addlog
         ELSE /\ stack' = Pop(stack, c)
              /\ addlog' = Logged(Top(c), "return")
    /\ UNCHANGED <<quiet, commands, timer, timers, now, nextId, nCancel,
                   started, failed, removed, discarded, drainlog>>

\* -------------------------------------------------------- __proc_command
\* line 52: if self.commands.empty()
ProcEmpty(c) ==
    /\ At(c, "empty")
    /\ stack' = SetTop(stack, c,
                       [Top(c) EXCEPT !.pc = IF QueueEmpty(commands) THEN "clear" ELSE "get"])
    /\ UNCHANGED <<quiet, commands, timer, timers, now, nextId, nCancel, hist>>

\* lines 53-54: self.timer = None; return
ProcClear(c) ==
    /\ At(c, "clear")
    /\ timer' = ClearTimer(timer)
    /\ stack' = Pop(stack, c)
    /\ addlog' = Logged([Top(c) EXCEPT !.w = timer' # timer], "return")
    /\ UNCHANGED <<quiet, commands, timers, now, nextId, nCancel,
                   started, failed, removed, discarded, drainlog>>

\* line 57: cmd = self.commands.get(), which blocks while the queue is empty
ProcGet(c) ==
    /\ At(c, "get")
    /\ ~QueueEmpty(commands)
    /\ commands' = QueueGet(commands).rest
    /\ stack' = SetTop(stack, c, [Top(c) EXCEPT !.pc = "call", !.cmd = QueueGet(commands).item])
    /\ UNCHANGED <<quiet, timer, timers, now, nextId, nCancel, hist>>

\* lines 58-60: before = DateTime.now().millis; funct() is entered
ProcCall(c) ==
    /\ At(c, "call")
    /\ started' = Append(started, [id |-> Top(c).cmd.id, pause |-> Top(c).cmd.pause, t |-> now])
    /\ stack' = SetTop(stack, c, [Top(c) EXCEPT !.pc = "run", !.before = now, !.n = @ + 1,
                                                 !.own = (Top(c).cmd.id = Top(c).id)])
    /\ UNCHANGED <<quiet, commands, timer, timers, now, nextId, nCancel,
                   failed, removed, discarded, addlog, drainlog>>

\* lines 60-69: funct() returns; after, delta and trigger_time are computed and
\* `not self.timer` is read
ProcReturn(c) ==
    /\ At(c, "run")
    /\ LET f == Top(c)
           delta == now - f.before
       IN  stack' = SetTop(stack, c,
                [f EXCEPT !.pc = IF timer = None THEN "create" ELSE "resched",
                          !.trig = MinusMillis(ToDatetime(f.cmd.pause, now), delta)])
    /\ UNCHANGED <<quiet, commands, timer, timers, now, nextId, nCancel, hist>>

\* line 60: funct() raises; nothing in __proc_command or add_command catches it,
\* so the frame is left without reaching lines 61-73
ProcRaise(c) ==
    /\ At(c, "run")
    /\ failed' = failed \cup {Top(c).cmd.id}
    /\ drainlog' = drainlog \cup {DrainRecord(Top(c), TRUE, "none")}
    /\ stack' = Pop(stack, c)
    /\ addlog' = Logged(Top(c), "CommandFailure")
    /\ UNCHANGED <<quiet, commands, timer, timers, now, nextId, nCancel, started, removed, discarded>>

\* lines 70-71: self.timer = ScriptExecution.createTimer(trigger_time, self.__proc_command)
ProcCreate(c) ==
    /\ At(c, "create")
    /\ timers' = CreateTimer(timers, Top(c).trig)
    /\ timer' = Len(timers) + 1
    /\ drainlog' = drainlog \cup {DrainRecord(Top(c), FALSE, "create")}
    /\ stack' = Pop(stack, c)
    /\ addlog' = Logged([Top(c) EXCEPT !.w = TRUE], "return")
    /\ UNCHANGED <<quiet, commands, now, nextId, nCancel, started, failed, removed, discarded>>

\* line 73: self.timer.reschedule(trigger_time); self.timer is read again, and the
\* call raises AttributeError when it has become None
ProcReschedule(c) ==
    /\ At(c, "resched")
    /\ IF timer = None
         THEN /\ timers' = timers
              /\ drainlog' = drainlog \cup {DrainRecord(Top(c), FALSE, "none")}
              /\ addlog' = Logged(Top(c), "AttributeError")
         ELSE /\ timers' = Reschedule(timers, timer, Top(c).trig)
              /\ drainlog' = drainlog \cup {DrainRecord(Top(c), FALSE, "reschedule")}
              /\ addlog' = Logged([Top(c) EXCEPT !.w = TRUE], "return")
    /\ stack' = Pop(stack, c)
    /\ UNCHANGED <<quiet, commands, timer, now, nextId, nCancel, started, failed, removed, discarded>>

\* ------------------------------------------------------------ cancel_all
\* line 93: cancel_all is entered
CancelAll(c) ==
    /\ nCancel < MaxCancels
    /\ CanCall(c)
    /\ nCancel' = nCancel + 1
    /\ stack' = Push(NotSolo(stack, c), c, Frame("cancel", "cchk", 0, FALSE, FALSE, QueuedIds))
    /\ UNCHANGED <<quiet, commands, timer, timers, now, nextId, hist>>

\* line 94: while not self.commands.empty()
CancelEmpty(c) ==
    /\ At(c, "cchk")
    /\ IF QueueEmpty(commands)
         THEN /\ stack' = Pop(stack, c)
              /\ discarded' = discarded \cup (Top(c).snap \ StartedIds)
              /\ quiet' = TRUE
         ELSE /\ stack' = SetTop(stack, c, [Top(c) EXCEPT !.pc = "cget"])
              /\ discarded' = discarded
              /\ quiet' = quiet
    /\ UNCHANGED <<commands, timer, timers, now, nextId, nCancel,
                   started, failed, removed, addlog, drainlog>>

\* line 95: self.commands.get(False), which raises Empty when the queue is empty
CancelGet(c) ==
    /\ At(c, "cget")
    /\ IF QueueEmpty(commands)
         THEN /\ stack' = Pop(stack, c)
              /\ UNCHANGED <<commands, removed>>
         ELSE /\ commands' = QueueGet(commands).rest
              /\ removed' = removed \cup {QueueGet(commands).item.id}
              /\ stack' = SetTop(stack, c, [Top(c) EXCEPT !.pc = "cchk"])
    /\ UNCHANGED <<quiet, timer, timers, now, nextId, nCancel,
                   started, failed, discarded, addlog, drainlog>>

\* ------------------------------------------------------- the timer service
\* an armed timer whose instant has come runs self.__proc_command on its thread
TimerFire(t) ==
    /\ t \in 1..Len(timers)
    /\ timers[t].armed
    /\ now >= timers[t].at
    /\ ~Running(t)
    /\ timers' = [timers EXCEPT ![t].armed = FALSE]
    /\ stack' = Push(NotSolo(stack, t), t, [Frame("fire", "empty", 0, FALSE, FALSE, {}) EXCEPT !.quiet = quiet])
    /\ UNCHANGED <<quiet, commands, timer, now, nextId, nCancel, hist>>

\* the clock advances
Tick ==
    /\ \/ now < MaxTime
       \/ \E t \in ArmedTimers : timers[t].at > now
    /\ now' = now + 1
    /\ UNCHANGED <<quiet, commands, timer, timers, stack, nextId, nCancel, hist>>

\* ------------------------------------------------------------------ Next
Step(c) ==
    \/ AddCheckNone(c)
    \/ AddCheckTerminated(c)
    \/ ProcEmpty(c)
    \/ ProcClear(c)
    \/ ProcGet(c)
    \/ ProcCall(c)
    \/ ProcReturn(c)
    \/ ProcCreate(c)
    \/ ProcReschedule(c)
    \/ CancelEmpty(c)
    \/ CancelGet(c)

Next ==
    \/ \E c \in Contexts, p \in Pauses : AddCommand(c, p)
    \/ \E c \in Contexts : CancelAll(c)
    \/ \E c \in Contexts : Step(c)
    \/ \E c \in Contexts : ProcRaise(c)
    \/ \E t \in Timers : TimerFire(t)
    \/ Tick

Spec == Init /\ [][Next]_vars

\* every thread that can take a step of the operation it is in takes it, every
\* command returns, every armed timer fires, and time passes
FairSpec ==
    /\ Spec
    /\ \A c \in Contexts : WF_vars(Step(c))
    /\ \A t \in Timers : WF_vars(TimerFire(t))
    /\ WF_vars(Tick)

\* ================================================================ claims
\* C1: at most one drain step (__proc_command), and so at most one command
\* invocation, is in flight at a time, under any interleaving of add_command
\* calls, timer firings and add_command calls made by a running command.
C1_SingleDrainStep == Cardinality(DrainFrames) <= 1 /\ Cardinality(RunFrames) <= 1

\* C2: commands start in the order their entries were enqueued: of two
\* invocations, the earlier one is of the entry enqueued earlier.
C2_StartsInFifoOrder ==
    \A i, j \in 1..Len(started) : i < j => started[i].id < started[j].id

\* C3: between the start of a command and the start of the next command
\* executed at least the pause of the first one passes.
C3_PauseBetweenStarts ==
    \A i \in 1..(Len(started) - 1) : started[i + 1].t - started[i].t >= started[i].pause

\* C4: every entry in the queue is eventually invoked or removed by
\* cancel_all, when every armed timer fires and every command returns, without
\* a further add_command call.
C4_EveryEntryEventuallyInvoked ==
    \A i \in 1..MaxCmds : (i \in QueuedIds) ~> (i \in StartedIds \/ i \in removed)

\* C5: no entry's command is invoked more than once, whether it returned
\* or raised.
C5_AtMostOnce ==
    \A i, j \in 1..Len(started) : i # j => started[i].id # started[j].id

\* C5 witness: a command raised, and a later drain step invoked the next entry.
C5_Witness ==
    /\ Len(started) = 2
    /\ started[1].id \in failed
    /\ started[2].id # started[1].id

\* C6: an add_command call made on an idle Gatekeeper (no live timer, no
\* drain step in progress) has invoked the command it submitted when it returns.
C6_IdleRunsInline == \A r \in addlog : (r.idle /\ r.exc = "return") => r.own

\* C7: an add_command call made on a busy Gatekeeper (timer armed, or a drain
\* step in progress) invokes no command and leaves the timer handle alone.
C7_BusyOnlyEnqueues == \A r \in addlog : ~r.idle => (r.n = 0 /\ ~r.w)

\* C8: no entry that was in the queue when cancel_all was called, and was
\* not started when it returned, is ever invoked.
C8_CancelledNeverInvoked == discarded \cap StartedIds = {}

C10_FailureStillArms == \A r \in drainlog : r.failed => r.armed

\* C11: a failure raised by a command leaves neither add_command (inline drain
\* step) nor the timer callback (drain step run by a timer firing).
C11_FailureIsCaught ==
    /\ \A r \in addlog : r.exc # "CommandFailure"
    /\ \A r \in drainlog : ~(r.failed /\ r.op = "fire")

\* C12: add_command rejects a negative pause: no entry with a negative pause
\* is ever in the queue, and none is ever invoked.
C12_NegativeDelayRejected ==
    /\ \A i \in 1..Len(commands) : commands[i].pause >= 0
    /\ \A i \in 1..Len(started) : started[i].pause >= 0

\* C13: at most one timer created by the Gatekeeper is armed and not yet
\* fired at any instant.
C13_OneLiveTimer == Cardinality(ArmedTimers) <= 1

Max(a, b) == IF a >= b THEN a ELSE b

\* C14: when the command of a drain step with a legal (non-negative) pause
\* returns after c = after - before ms, the instant given to the timer is
\* wait = max(pause - c, 0) after the return; the wait is never negative and
\* never more than the pause.
C14_WaitIsPauseLessCost ==
    [][\A c \in Contexts :
          (At(c, "run") /\ Top(c).cmd.pause >= 0
                        /\ Len(stack'[c]) = Len(stack[c])
                        /\ stack'[c][Len(stack[c])].pc \in {"create", "resched"})
          => LET f == Top(c)
                 cost == now - f.before
                 wait == stack'[c][Len(stack[c])].trig - now
             IN  /\ wait = Max(f.cmd.pause - cost, 0)
                 /\ wait >= 0
                 /\ wait <= f.cmd.pause]_vars

\* C15: a drain step whose command returned does exactly one of: arm a fresh
\* timer, when no handle exists or the handle has terminated; reschedule the
\* handle, when it is live.
C15_ArmFreshOrReschedule ==
    \A r \in drainlog :
        ~r.failed => (r.how # "none" /\ (r.how = "reschedule" <=> r.live))

\* C16: cancel_all touches only the queue: no step of cancel_all changes
\* self.timer or a timer; a timer that fires after a cancel_all returned, with
\* no add_command since, never gets past the empty-queue check, and its
\* callback ends by setting self.timer to None without invoking a command.
C16_CancelLeavesTimerAlone ==
    /\ [](\A t \in Timers : \A i \in 1..Len(stack[t]) :
              stack[t][i].quiet => stack[t][i].pc \in {"empty", "clear"})
    /\ [][/\ \A c \in Contexts :
               (\/ Depth(c) > 0 /\ Top(c).op = "cancel"
                      /\ (Len(stack'[c]) # Len(stack[c]) \/ stack'[c][Len(stack[c])] # Top(c))
                \/ Len(stack'[c]) = Len(stack[c]) + 1
                      /\ stack'[c][Len(stack'[c])].op = "cancel")
               => UNCHANGED <<timer, timers>>
          /\ \A t \in Timers :
               (At(t, "clear") /\ Top(t).quiet /\ stack'[t] = <<>>)
               => (timer' = None /\ started' = started)]_vars

\* C16 witness: cancel_all removed an entry and returned, then the armed timer
\* fired, found the queue empty and is about to clear the handle.
C16_Witness ==
    \E t \in Timers : At(t, "clear") /\ Top(t).quiet /\ removed # {} /\ timer = t

\* C17: between operations, an idle Gatekeeper (handle None or terminated,
\* and no other timer armed that would drain) has an empty queue.
C17_IdleMeansEmptyQueue ==
    (NoFrames /\ (timer = None \/ HasTerminated(timer)) /\ ArmedTimers = {})
        => QueueEmpty(commands)

\* C18: a call of add_command or cancel_all made by a running command
\* returns, and the drain step that runs the command then completes.
C18_ReentrantCallReturns ==
    \A c \in Contexts : (Depth(c) >= 2) ~> (stack[c] = <<>>)

\* the frames that are at program point pc
FramesAt(pc) == {<<c, i>> \in Contexts \X (1..MaxDepth + 1) :
                    i <= Len(stack[c]) /\ stack[c][i].pc = pc}

\* C19: a drain step that has passed its empty-queue check finds an entry:
\* whenever a thread is about to pop at line 57, the queue is not empty.
C19_PopNeverBlocks == FramesAt("get") # {} => ~QueueEmpty(commands)

\* C20: cancel_all never raises: whenever it is about to pop at line 95, after
\* its not-empty check, the queue is not empty.
C20_CancelPopNeverEmpty == FramesAt("cget") # {} => ~QueueEmpty(commands)

====
